---- MODULE Spec2Model ----
(***************************************************************************)
(* Dues ledger and durable document store of the treasurer application     *)
(* (src/app.py, class TreasurerApp).                                       *)
(*                                                                         *)
(* Two specifications share the storage operators:                         *)
(*   SpecStore  - save_data / load_data on one logical document            *)
(*   Spec       - the ledger operations (members, payments, transactions)  *)
(*                together with the saves they perform                     *)
(***************************************************************************)
EXTENDS Integers, Sequences, FiniteSets, TLC

VARIABLES members, transactions, now, nextId, nextMember, edits, disk, last, target,
          pending_brothers, threads

vars == <<members, transactions, now, nextId, nextMember, edits, disk, last, target,
          pending_brothers, threads>>

(***************************************************************************)
(* Bounds                                                                  *)
(***************************************************************************)
MaxEntries == 1       \* entries of a generic document (users, budget)
NumKeys == 2          \* distinct keys a generic document entry may carry
MaxMemberId == 2      \* members added in one behaviour
MaxId == 2            \* transactions added in one behaviour
MaxEdits == 1         \* update_member and update_transaction calls that change a record
MaxClock == 60        \* last clock reading, in seconds
NumThreads == 2       \* request threads that serve calls at the same time

(***************************************************************************)
(* Files                                                                   *)
(***************************************************************************)
members_file == "members.json"
transactions_file == "transactions.json"
users_file == "users.json"
budget_file == "budget.json"
pending_brothers_file == "pending_brothers.json"

Files == {members_file, transactions_file, users_file, budget_file,
          pending_brothers_file}

\* 'members.json' in file_path or 'users.json' in file_path
CriticalFiles == {members_file, users_file}

\* json_size > 3000
CompressThreshold == 3000

\* One file of the data directory: absent, unreadable (a write that stopped
\* part way leaves bytes json.load rejects), or a JSON document.
Absent == [kind |-> "absent", data |-> <<>>]
Corrupt == [kind |-> "corrupt", data |-> <<>>]
FileOf(d) == [kind |-> "json", data |-> d]

\* os.path.exists
Exists(f) == f.kind # "absent"

\* The four paths that belong to one logical name:
\* file_path, file_path + '.gz', file_path + '.backup', file_path + '.gz.backup'
NoFiles == [exp |-> Absent, gz |-> Absent, bak |-> Absent, gzbak |-> Absent]

\* How a write can end: it completes, the open fails (file untouched), or the
\* write stops part way (file left unreadable).
FailModes == {"none", "open", "partial"}

\* Request threads.  A thread that serves a call step by step is at pc, holds
\* the serialized_data of its save_data call, and ends with a result.
Threads == 1..NumThreads
IdleThread == [pc |-> "idle", serialized_data |-> <<>>, result |-> "none"]
NoThreads == [t \in Threads |-> IdleThread]

RECURSIVE SumSeq(_)
SumSeq(s) == IF s = <<>> THEN 0 ELSE Head(s) + SumSeq(Tail(s))

(***************************************************************************)
(* Serialisation                                                           *)
(***************************************************************************)
\* Representative lengths of the compact encoding of one record (uuid ids,
\* isoformat dates, a ten-character name).
MemberBytes == 293
ScheduleEntryBytes == 92
PaymentBytes == 168
TransactionBytes == 205
PendingBrotherBytes == 334

\* asdict(member)
MemberAsDict(m) ==
    [id |-> m.id, dues_amount |-> m.dues_amount, payment_plan |-> m.payment_plan,
     custom_schedule |-> m.custom_schedule, payments_made |-> m.payments_made]

\* asdict(transaction)
TransactionAsDict(t) ==
    [id |-> t.id, date |-> t.date, category |-> t.category,
     amount |-> t.amount, type |-> t.type]

\* asdict(pending_brother)
PendingBrotherAsDict(b) ==
    [id |-> b.id, full_name |-> b.full_name, email |-> b.email,
     is_verified |-> b.is_verified]

\* save_data: "Convert objects to dictionaries for JSON serialization"
asdict(file, data) ==
    IF file = members_file THEN [i \in DOMAIN data |-> MemberAsDict(data[i])]
    ELSE IF file = transactions_file THEN [i \in DOMAIN data |-> TransactionAsDict(data[i])]
    ELSE IF file = pending_brothers_file
    THEN [i \in DOMAIN data |-> PendingBrotherAsDict(data[i])]
    ELSE data

\* load_data: Member(id=member_data['id'], ...)
MemberFromDict(d) ==
    [id |-> d.id, dues_amount |-> d.dues_amount, payment_plan |-> d.payment_plan,
     custom_schedule |-> d.custom_schedule, payments_made |-> d.payments_made]

\* load_data: Transaction(id=trans_data['id'], ...)
TransactionFromDict(d) ==
    [id |-> d.id, date |-> d.date, category |-> d.category,
     amount |-> d.amount, type |-> d.type]

\* load_data: PendingBrother(id=pending_data['id'], ...)
PendingBrotherFromDict(d) ==
    [id |-> d.id, full_name |-> d.full_name, email |-> d.email,
     is_verified |-> d.is_verified]

FromDict(file, data) ==
    IF file = members_file THEN [i \in DOMAIN data |-> MemberFromDict(data[i])]
    ELSE IF file = transactions_file THEN [i \in DOMAIN data |-> TransactionFromDict(data[i])]
    ELSE IF file = pending_brothers_file
    THEN [i \in DOMAIN data |-> PendingBrotherFromDict(data[i])]
    ELSE data

\* Length of one top-level entry of the compact encoding.
EntryBytes(file, e) ==
    IF file = members_file
    THEN MemberBytes + ScheduleEntryBytes * Len(e.custom_schedule)
                     + PaymentBytes * Len(e.payments_made)
    ELSE IF file = transactions_file THEN TransactionBytes
    ELSE IF file = pending_brothers_file THEN PendingBrotherBytes
    ELSE e.bytes

\* len(json.dumps(serialized_data, separators=(',', ':'))): the two brackets,
\* the entries, and a comma between neighbours.
JsonSize(file, ser) ==
    2 + SumSeq([i \in DOMAIN ser |-> EntryBytes(file, ser[i])])
      + (IF Len(ser) > 1 THEN Len(ser) - 1 ELSE 0)

(***************************************************************************)
(* load_data                                                               *)
(***************************************************************************)
\* Result of load_data: st = "ok" with the document, "default" when the
\* default_data argument is returned, "error" when json.load raises.
ReadFile(f) ==
    IF f.kind = "corrupt" THEN [st |-> "error", data |-> <<>>]
    ELSE [st |-> "ok", data |-> f.data]

load_data(file, fs) ==
    LET raw == IF Exists(fs.gz) THEN ReadFile(fs.gz)
               ELSE IF Exists(fs.exp) THEN ReadFile(fs.exp)
               ELSE [st |-> "default", data |-> <<>>]
    IN  IF raw.st = "ok"
        THEN IF raw.data # <<>>
             THEN [st |-> "ok", data |-> FromDict(file, raw.data)]
             ELSE [st |-> "default", data |-> <<>>]
        ELSE raw

(***************************************************************************)
(* save_data                                                               *)
(***************************************************************************)
_create_backup(fs) ==
    IF Exists(fs.exp) THEN [fs EXCEPT !.bak = fs.exp]
    ELSE IF Exists(fs.gz) THEN [fs EXCEPT !.gzbak = fs.gz]
    ELSE fs

_restore_from_backup(fs) ==
    IF Exists(fs.bak) THEN [fs EXCEPT !.exp = fs.bak]
    ELSE IF Exists(fs.gzbak) THEN [fs EXCEPT !.gz = fs.gzbak]
    ELSE fs

\* with gzip.open(compressed_path, 'wt') ...; then os.remove(file_path)
WriteCompressed(fs, ser, fail) ==
    IF fail = "open" THEN fs
    ELSE IF fail = "partial" THEN [fs EXCEPT !.gz = Corrupt]
    ELSE [fs EXCEPT !.gz = FileOf(ser), !.exp = Absent]

\* with open(file_path, 'w') ...
WriteExpanded(fs, ser, fail) ==
    IF fail = "open" THEN fs
    ELSE IF fail = "partial" THEN [fs EXCEPT !.exp = Corrupt]
    ELSE [fs EXCEPT !.exp = FileOf(ser)]

\* test_load is None or (len(test_load) == 0 and len(serialized_data) > 0),
\* or the load itself raised inside the try block
VerifyFails(file, fs, ser) ==
    LET test_load == load_data(file, fs)
    IN  \/ test_load.st = "error"
        \/ test_load.st = "default"
        \/ (test_load.data = <<>> /\ ser # <<>>)

\* Returns the files after the call and whether the call raised.
save_data(file, fs, data, fail) ==
    LET serialized_data == asdict(file, data)
        backup_created == file \in CriticalFiles
        fs1 == IF backup_created THEN _create_backup(fs) ELSE fs
        json_size == JsonSize(file, serialized_data)
        should_compress == json_size > CompressThreshold
        fs2 == IF should_compress
               THEN WriteCompressed(fs1, serialized_data, fail)
               ELSE WriteExpanded(fs1, serialized_data, fail)
        failed == fail # "none" \/ VerifyFails(file, fs2, serialized_data)
        fs3 == IF failed /\ backup_created THEN _restore_from_backup(fs2) ELSE fs2
    IN  [fs |-> fs3, raised |-> failed]

(***************************************************************************)
(* SpecStore: save_data on one logical document                            *)
(***************************************************************************)
Keys == 1..NumKeys
EntrySizes == {98, 2898, 2998, 3098}
Entries == [key : Keys, bytes : EntrySizes]

\* Documents with distinct keys, at most MaxEntries entries.
RECURSIVE DocsOfLen(_)
DocsOfLen(n) ==
    IF n = 0 THEN {<<>>}
    ELSE {Append(d, e) : d \in {x \in DocsOfLen(n - 1) : Len(x) = n - 1},
                         e \in Entries}

DistinctKeys(d) == \A i, j \in DOMAIN d : i # j => d[i].key # d[j].key

StoreDocs == {d \in UNION {DocsOfLen(n) : n \in 0..MaxEntries} : DistinctKeys(d)}

\* What the most recent call was and how it ended (ret: its return value was
\* truthy; raised: it ended with an exception; save_raised: a save_data call
\* made inside it raised).
NoLast ==
    [op |-> "init", raised |-> FALSE, ret |-> FALSE, file |-> "", fail |-> "none",
     data |-> <<>>, before |-> [st |-> "default", data |-> <<>>],
     files_before |-> NoFiles, mid |-> 0, tid |-> 0, amount |-> 0,
     save_raised |-> FALSE]

InitStore ==
    /\ members = <<>>
    /\ transactions = <<>>
    /\ now = 0
    /\ nextId = 1
    /\ nextMember = 1
    /\ edits = 0
    /\ disk = [f \in Files |-> NoFiles]
    /\ last = NoLast
    /\ target \in {users_file, budget_file}
    /\ pending_brothers = <<>>
    /\ threads = NoThreads

\* One call save_data(target, d) whose write ends as `fail` says.
SaveDoc(d, fail) ==
    LET r == save_data(target, disk[target], d, fail)
    IN  /\ disk' = [disk EXCEPT ![target] = r.fs]
        /\ last' = [NoLast EXCEPT !.op = "save_data", !.raised = r.raised,
                                  !.save_raised = r.raised,
                                  !.file = target, !.fail = fail, !.data = d,
                                  !.before = load_data(target, disk[target]),
                                  !.files_before = disk[target]]
        /\ UNCHANGED <<members, transactions, now, nextId, nextMember, edits, target, pending_brothers, threads>>

NextStore == \E d \in StoreDocs, fail \in FailModes : SaveDoc(d, fail)

SpecStore == InitStore /\ [][NextStore]_vars

(***************************************************************************)
(* Ledger: members, payments, transactions                                 *)
(***************************************************************************)
\* payment.get('transaction_id') of a payment that carries no such key
None == 0
\* an id no member and no transaction carries
UnknownId == 0
\* the id of the records found in the data files at start-up
LegacyId == 1

ClockStep == 60
\* time_diff < 60
FuzzyWindow == 60

DuesCollection == "Dues Collection"
\* category and type a transaction form submits
TransactionKinds ==
    {[category |-> DuesCollection, type |-> "income"],
     [category |-> "Social", type |-> "expense"]}
Amounts == {25, 50}
PaymentAmounts == {25}
DuesAmounts == {100}
EditedDuesAmounts == {100, 200}
Plans == {"semester"}
Methods == {"cash"}

Abs(x) == IF x < 0 THEN -x ELSE x

Remove(s, i) == [k \in 1..(Len(s) - 1) |-> IF k < i THEN s[k] ELSE s[k + 1]]

\* A lookup that falls back to the first member when the id is not found.
IndexOfMemberFirst(ms, mid) ==
    IF \E i \in DOMAIN ms : ms[i].id = mid
    THEN CHOOSE i \in DOMAIN ms : ms[i].id = mid
    ELSE IF ms # <<>> THEN 1 ELSE 0

\* member_id in self.members
IndexOfMember(ms, mid) ==
    IF \E i \in DOMAIN ms : ms[i].id = mid
    THEN CHOOSE i \in DOMAIN ms : ms[i].id = mid
    ELSE 0

\* for i, transaction in enumerate(self.transactions): if transaction.id == ...
IndexOfTransaction(ts, tid) ==
    IF \E i \in DOMAIN ts : ts[i].id = tid
    THEN CHOOSE i \in DOMAIN ts : ts[i].id = tid /\ \A k \in 1..(i - 1) : ts[k].id # tid
    ELSE 0

Installment(amount, description) == [amount |-> amount, description |-> description]

\* The custom_schedule generate_payment_schedule leaves on the member.
\* Due dates are calendar values the ledger never reads back; they are not
\* part of this record.
generate_payment_schedule(m) ==
    IF m.payment_plan = "monthly"
    THEN [i \in 1..4 |-> Installment(m.dues_amount \div 4, "Monthly payment")]
    ELSE IF m.payment_plan = "bimonthly"
    THEN [i \in 1..2 |-> Installment(m.dues_amount \div 2, "Bi-monthly payment")]
    ELSE IF m.payment_plan = "semester"
    THEN <<Installment(m.dues_amount, "Full semester payment")>>
    ELSE <<>>

\* sum(payment['amount'] for payment in member.payments_made)
TotalPaid(m) == SumSeq([i \in DOMAIN m.payments_made |-> m.payments_made[i].amount])

\* get_member_balance for a member record
get_member_balance(m) == m.dues_amount - TotalPaid(m)

\* Transaction(id=..., date=datetime.now().isoformat(), ...)
NewTransaction(tid, date, category, amount, type) ==
    [id |-> tid, date |-> date, category |-> category, amount |-> amount, type |-> type]

\* A payment dict built without the reference to its transaction.
NewPaymentUnlinked(amount, date, method, pid, tid) ==
    [amount |-> amount, date |-> date, method |-> method, id |-> pid,
     transaction_id |-> None]

\* the payment dict record_payment builds
NewPayment(amount, date, method, pid, tid) ==
    [amount |-> amount, date |-> date, method |-> method, id |-> pid,
     transaction_id |-> tid]

\* The two tests _remove_corresponding_member_payment applies to one payment,
\* one after the other, before it moves on to the next payment.
ExactMatch(p, t) == p.transaction_id = t.id
FuzzyMatch(p, t) == p.amount = t.amount /\ Abs(p.date - t.date) < FuzzyWindow
PaymentMatches(p, t) == ExactMatch(p, t) \/ FuzzyMatch(p, t)

DeletePayment(ms, ij) ==
    [ms EXCEPT ![ij[1]].payments_made = Remove(@, ij[2])]

\* The scan from payment j of member i onward, members in order and payments
\* in order.  A payment that passes the id test is deleted and saved, and the
\* scan returns (an exception of that save leaves the method).  A payment that
\* passes the amount-and-time test is deleted and saved inside the try block:
\* an exception of that save is caught there (caught) and the scan goes on at
\* the next index of the shortened list.
RECURSIVE ScanPayments(_, _, _, _, _, _)
ScanPayments(ms, fs, t, i, j, fail) ==
    IF i > Len(ms)
    THEN [ms |-> ms, fs |-> fs, raised |-> FALSE, ret |-> FALSE, caught |-> FALSE]
    ELSE IF j > Len(ms[i].payments_made)
    THEN ScanPayments(ms, fs, t, i + 1, 1, fail)
    ELSE LET payment == ms[i].payments_made[j]
             deleted == DeletePayment(ms, <<i, j>>)
             r == save_data(members_file, fs, deleted, fail)
         IN  IF ExactMatch(payment, t)
             THEN [ms |-> deleted, fs |-> r.fs, raised |-> r.raised, ret |-> ~r.raised,
                   caught |-> FALSE]
             ELSE IF FuzzyMatch(payment, t)
             THEN IF r.raised
                  THEN [ScanPayments(deleted, r.fs, t, i, j + 1, fail)
                          EXCEPT !.caught = TRUE]
                  ELSE [ms |-> deleted, fs |-> r.fs, raised |-> FALSE, ret |-> TRUE,
                        caught |-> FALSE]
             ELSE ScanPayments(ms, fs, t, i, j + 1, fail)

_remove_corresponding_member_payment(ms, fs, t, fail) ==
    ScanPayments(ms, fs, t, 1, 1, fail)

(***************************************************************************)
(* Spec: the ledger operations                                             *)
(***************************************************************************)
\* Data files found at start-up: none, or the files of an earlier release
\* whose payments carry no transaction_id.
LegacyMember ==
    [id |-> LegacyId, dues_amount |-> 100, payment_plan |-> "semester",
     custom_schedule |-> <<Installment(100, "Full semester payment")>>,
     payments_made |-> <<NewPayment(25, 0, "cash", LegacyId, None)>>]

LegacyTransaction == NewTransaction(LegacyId, 30, DuesCollection, 25, "income")

InitLedgers ==
    {[members |-> <<>>, transactions |-> <<>>, next |-> 1],
     [members |-> <<LegacyMember>>, transactions |-> <<LegacyTransaction>>,
      next |-> LegacyId + 1]}

FilesOf(file, data) ==
    IF data = <<>> THEN NoFiles
    ELSE [NoFiles EXCEPT !.exp = FileOf(asdict(file, data))]

Init ==
    \E L \in InitLedgers :
        /\ members = L.members
        /\ transactions = L.transactions
        /\ nextId = L.next
        /\ nextMember = L.next
        /\ edits = 0
        /\ now = 0
        /\ disk = [f \in Files |->
                     IF f = members_file THEN FilesOf(f, L.members)
                     ELSE IF f = transactions_file THEN FilesOf(f, L.transactions)
                     ELSE NoFiles]
        /\ last = NoLast
        /\ target = members_file
        /\ pending_brothers = <<>>
        /\ threads = NoThreads

NoDate == -1
DateArgs == {NoDate}
NoSchedule == [given |-> FALSE, value |-> <<>>]
ScheduleArgs == {NoSchedule}

MemberIds == {members[i].id : i \in DOMAIN members}
TransactionIds == {transactions[i].id : i \in DOMAIN transactions}

Call(op, raised, ret) ==
    [NoLast EXCEPT !.op = op, !.raised = raised, !.ret = ret, !.save_raised = raised]

add_member(dues_amount, payment_plan, custom_schedule, fail) ==
    /\ nextMember <= MaxMemberId
    /\ LET member_id == nextMember
           member == [id |-> member_id, dues_amount |-> dues_amount,
                      payment_plan |-> payment_plan,
                      custom_schedule |-> custom_schedule.value,
                      payments_made |-> <<>>]
           generated == [member EXCEPT !.custom_schedule = generate_payment_schedule(member)]
           ms == Append(members, generated)
           r == save_data(members_file, disk[members_file], ms, fail)
       IN  /\ members' = ms
           /\ disk' = [disk EXCEPT ![members_file] = r.fs]
           /\ nextMember' = nextMember + 1
           /\ last' = [Call("add_member", r.raised, ~r.raised)
                         EXCEPT !.mid = member_id, !.data = custom_schedule]
    /\ UNCHANGED <<transactions, now, nextId, edits, target, pending_brothers, threads>>

update_member(member_id, dues_amount, payment_plan, custom_schedule, fail) ==
    LET i == IndexOfMember(members, member_id)
    IN  IF i = 0
        THEN /\ fail = "none"
             /\ last' = [Call("update_member", FALSE, FALSE) EXCEPT !.mid = member_id]
             /\ UNCHANGED <<members, transactions, now, nextId, nextMember, edits, disk, target, pending_brothers, threads>>
        ELSE LET edited == [members[i] EXCEPT !.dues_amount = dues_amount,
                                              !.payment_plan = payment_plan]
                 member == IF custom_schedule.given
                           THEN [edited EXCEPT !.custom_schedule = custom_schedule.value]
                           ELSE [edited EXCEPT !.custom_schedule = generate_payment_schedule(edited)]
                 ms == [members EXCEPT ![i] = member]
                 r == save_data(members_file, disk[members_file], ms, fail)
             IN  /\ edits < MaxEdits
                 /\ edits' = edits + 1
                 /\ members' = ms
                 /\ disk' = [disk EXCEPT ![members_file] = r.fs]
                 /\ last' = [Call("update_member", r.raised, ~r.raised)
                               EXCEPT !.mid = member_id, !.data = custom_schedule]
                 /\ UNCHANGED <<transactions, now, nextId, nextMember, target, pending_brothers, threads>>

remove_member(member_id, fail) ==
    LET i == IndexOfMember(members, member_id)
    IN  IF i = 0
        THEN /\ fail = "none"
             /\ last' = [Call("remove_member", FALSE, FALSE) EXCEPT !.mid = member_id]
             /\ UNCHANGED <<members, transactions, now, nextId, nextMember, edits, disk, target, pending_brothers, threads>>
        ELSE LET ms == Remove(members, i)
                 r == save_data(members_file, disk[members_file], ms, fail)
             IN  /\ members' = ms
                 /\ disk' = [disk EXCEPT ![members_file] = r.fs]
                 /\ last' = [Call("remove_member", r.raised, ~r.raised)
                               EXCEPT !.mid = member_id]
                 /\ UNCHANGED <<transactions, now, nextId, nextMember, edits, target, pending_brothers, threads>>

add_transaction(category, amount, transaction_type, fail) ==
    /\ nextId <= MaxId
    /\ LET transaction_id == nextId
           ts == Append(transactions,
                        NewTransaction(transaction_id, now, category, amount, transaction_type))
           r == save_data(transactions_file, disk[transactions_file], ts, fail)
       IN  /\ transactions' = ts
           /\ disk' = [disk EXCEPT ![transactions_file] = r.fs]
           /\ nextId' = nextId + 1
           /\ last' = [Call("add_transaction", r.raised, ~r.raised)
                         EXCEPT !.amount = amount]
    /\ UNCHANGED <<members, now, nextMember, edits, target, pending_brothers, threads>>

update_transaction(transaction_id, category, amount, transaction_type, fail) ==
    LET i == IndexOfTransaction(transactions, transaction_id)
    IN  IF i = 0
        THEN /\ fail = "none"
             /\ last' = [Call("update_transaction", FALSE, FALSE)
                           EXCEPT !.tid = transaction_id]
             /\ UNCHANGED <<members, transactions, now, nextId, nextMember, edits, disk, target, pending_brothers, threads>>
        ELSE LET ts == [transactions EXCEPT ![i].category = category,
                                            ![i].amount = amount,
                                            ![i].type = transaction_type]
                 r == save_data(transactions_file, disk[transactions_file], ts, fail)
             IN  /\ edits < MaxEdits
                 /\ edits' = edits + 1
                 /\ transactions' = ts
                 /\ disk' = [disk EXCEPT ![transactions_file] = r.fs]
                 /\ last' = [Call("update_transaction", r.raised, ~r.raised)
                               EXCEPT !.tid = transaction_id]
                 /\ UNCHANGED <<members, now, nextId, nextMember, target, pending_brothers, threads>>

remove_transaction(transaction_id, fail_members, fail_transactions) ==
    LET i == IndexOfTransaction(transactions, transaction_id)
    IN  IF i = 0
        THEN /\ fail_members = "none"
             /\ fail_transactions = "none"
             /\ last' = [Call("remove_transaction", FALSE, FALSE)
                           EXCEPT !.tid = transaction_id]
             /\ UNCHANGED <<members, transactions, now, nextId, nextMember, edits, disk, target, pending_brothers, threads>>
        ELSE LET transaction == transactions[i]
                 dues == transaction.category = DuesCollection /\ transaction.type = "income"
                 saves == dues /\ \E x \in DOMAIN members :
                                    \E y \in DOMAIN members[x].payments_made :
                                       PaymentMatches(members[x].payments_made[y], transaction)
                 s == IF dues
                      THEN _remove_corresponding_member_payment(
                               members, disk[members_file], transaction, fail_members)
                      ELSE [ms |-> members, fs |-> disk[members_file],
                            raised |-> FALSE, ret |-> FALSE, caught |-> FALSE]
                 ts == Remove(transactions, i)
                 rt == save_data(transactions_file, disk[transactions_file], ts,
                                 fail_transactions)
             IN  /\ saves \/ fail_members = "none"
                 /\ s.raised => fail_transactions = "none"
                 /\ members' = s.ms
                 /\ transactions' = IF s.raised THEN transactions ELSE ts
                 /\ disk' = [disk EXCEPT
                               ![members_file] = s.fs,
                               ![transactions_file] = IF s.raised THEN @ ELSE rt.fs]
                 /\ last' = IF s.raised \/ rt.raised
                            THEN [Call("remove_transaction", TRUE, FALSE)
                                    EXCEPT !.tid = transaction_id]
                            ELSE [Call("remove_transaction", FALSE, TRUE)
                                    EXCEPT !.save_raised = s.caught,
                                           !.tid = transaction_id]
                 /\ UNCHANGED <<now, nextId, nextMember, edits, target, pending_brothers, threads>>

record_payment(member_id, amount, payment_method, date, fail_transactions, fail_members) ==
    LET i == IndexOfMember(members, member_id)
    IN  IF i = 0
        THEN /\ fail_transactions = "none"
             /\ fail_members = "none"
             /\ last' = [Call("record_payment", FALSE, FALSE) EXCEPT !.mid = member_id]
             /\ UNCHANGED <<members, transactions, now, nextId, nextMember, edits, disk, target, pending_brothers, threads>>
        ELSE /\ nextId <= MaxId
             /\ LET transaction_id == nextId
                    ts == Append(transactions,
                                 NewTransaction(transaction_id, now, DuesCollection,
                                                amount, "income"))
                    rt == save_data(transactions_file, disk[transactions_file], ts,
                                    fail_transactions)
                    payment == NewPayment(amount, IF date = NoDate THEN now ELSE date,
                                          payment_method, nextId, transaction_id)
                    ms == [members EXCEPT ![i].payments_made = Append(@, payment)]
                    rm == save_data(members_file, disk[members_file], ms, fail_members)
                IN  /\ rt.raised => fail_members = "none"
                    /\ transactions' = ts
                    /\ members' = IF rt.raised THEN members ELSE ms
                    /\ disk' = [disk EXCEPT
                                  ![transactions_file] = rt.fs,
                                  ![members_file] = IF rt.raised THEN @ ELSE rm.fs]
                    /\ nextId' = nextId + 1
                    /\ last' = [Call("record_payment", rt.raised \/ rm.raised,
                                     ~(rt.raised \/ rm.raised))
                                  EXCEPT !.mid = member_id, !.amount = amount]
                    /\ UNCHANGED <<now, nextMember, edits, target, pending_brothers, threads>>

\* Time passes between two calls.
Tick ==
    /\ now + ClockStep <= MaxClock
    /\ now' = now + ClockStep
    /\ UNCHANGED <<members, transactions, nextId, nextMember, edits, disk, last, target, pending_brothers, threads>>

\* Every ledger call on the records that exist, its writes ending as one of
\* the modes in F.
Calls(F) ==
    \/ \E d \in DuesAmounts, p \in Plans, s \in ScheduleArgs, f \in F :
          add_member(d, p, s, f)
    \/ \E m \in MemberIds, d \in EditedDuesAmounts, p \in Plans,
          s \in ScheduleArgs, f \in F : update_member(m, d, p, s, f)
    \/ \E m \in MemberIds, f \in F : remove_member(m, f)
    \/ \E k \in TransactionKinds, a \in Amounts, f \in F :
          add_transaction(k.category, a, k.type, f)
    \/ \E x \in TransactionIds, k \in TransactionKinds, a \in Amounts, f \in F :
          update_transaction(x, k.category, a, k.type, f)
    \/ \E x \in TransactionIds, f1 \in F, f2 \in F :
          remove_transaction(x, f1, f2)
    \/ \E m \in MemberIds, a \in PaymentAmounts, pm \in Methods,
          d \in DateArgs, f1 \in F, f2 \in F :
          record_payment(m, a, pm, d, f1, f2)
    \/ Tick

\* The storage medium accepts every write.
Next == Calls({"none"})

Spec == Init /\ [][Next]_vars

(***************************************************************************)
(* Claims about the document store (checked under SpecStore)               *)
(***************************************************************************)
Saved == last.op = "save_data"
SavedOk == Saved /\ ~last.raised
LoadNow == load_data(target, disk[target])

\* C3 - round trip: when save_data(name, d) of a non-empty document d returns
\* without error, a following load_data(name, default) returns d, whatever
\* was saved to the name before.
C3_RoundTrip ==
    (SavedOk /\ last.data # <<>>) => LoadNow = [st |-> "ok", data |-> last.data]

\* C4 - one representation: after a save_data call that returned, exactly one
\* of the expanded file and the .gz file exists.
C4_OneForm ==
    SavedOk => (Exists(disk[target].exp) # Exists(disk[target].gz))

\* C5 - failure rollback: when save_data of a critical document raises after
\* the backup was made, load_data returns the document persisted before the
\* call.
C5_Rollback ==
    (Saved /\ last.raised /\ target \in CriticalFiles /\ last.before.st = "ok")
        => LoadNow = last.before

(***************************************************************************)
(* Claims about the ledger (checked under Spec)                            *)
(***************************************************************************)
\* Every payment of every member, with the member that holds it.
AllPayments(ms) ==
    UNION {{[mid |-> ms[i].id, p |-> ms[i].payments_made[j]] :
               j \in DOMAIN ms[i].payments_made} : i \in DOMAIN ms}

\* The step is one ledger call (Tick moves the clock and leaves last alone).
IsCall(op) == last'.op = op /\ now' = now

IsDuesIncome(t) == t.category = DuesCollection /\ t.type = "income"

\* The transactions a step deletes, and the payments it deletes.
DeletedTransactions ==
    {transactions[i] : i \in {k \in DOMAIN transactions :
                                 transactions[k].id \notin TransactionIds'}}
DeletedPayments == AllPayments(members) \ AllPayments(members')

\* C1 - every payment whose transaction_id is set refers to a transaction that
\* is in the transaction list and is a Dues Collection income.
C1_LinkResolves ==
    \A x \in AllPayments(members) :
        x.p.transaction_id # None =>
            \E i \in DOMAIN transactions :
                /\ transactions[i].id = x.p.transaction_id
                /\ IsDuesIncome(transactions[i])

\* C2 - deletion symmetry: record_payment(m, a) followed by remove_transaction
\* of the transaction it made leaves m's balance where it was before the
\* payment and every other member's payments unchanged.
C2_DeletionSymmetry ==
    [][(/\ IsCall("remove_transaction")
        /\ last'.ret
        /\ last.op = "record_payment"
        /\ last.ret
        /\ (nextId - 1) \in TransactionIds
        /\ (nextId - 1) \notin TransactionIds'
        /\ \E x \in AllPayments(members) : x.p.transaction_id = nextId - 1)
       => LET x == CHOOSE y \in AllPayments(members) : y.p.transaction_id = nextId - 1
          IN  /\ Len(members') = Len(members)
              /\ \A i \in DOMAIN members :
                    IF members[i].id = x.mid
                    THEN get_member_balance(members'[i])
                            = get_member_balance(members[i]) + x.p.amount
                    ELSE members'[i].payments_made = members[i].payments_made]_vars

\* C6 - when the save inside a ledger call raises, members and transactions
\* are what they were before the call.
C6_RevertOnFailure ==
    [][(now' = now /\ last'.raised)
       => (members' = members /\ transactions' = transactions)]_vars

\* C7 - record_payment(m, a, method) that returns True appends one Dues
\* Collection income transaction of amount a and one payment of amount a to m,
\* the payment carrying the new transaction's id; nothing else changes.
C7_RecordPaymentLinks ==
    [][(IsCall("record_payment") /\ last'.ret)
       => /\ Len(transactions') = Len(transactions) + 1
          /\ SubSeq(transactions', 1, Len(transactions)) = transactions
          /\ LET t == transactions'[Len(transactions')]
             IN  /\ IsDuesIncome(t)
                 /\ t.id \notin TransactionIds
                 /\ t.amount = last'.amount
                 /\ \E i \in DOMAIN members :
                       /\ members[i].id = last'.mid
                       /\ Len(members'[i].payments_made) = Len(members[i].payments_made) + 1
                       /\ LET q == members'[i].payments_made[Len(members'[i].payments_made)]
                          IN  /\ q.amount = t.amount
                              /\ q.transaction_id = t.id
                              /\ members' = [members EXCEPT
                                               ![i].payments_made = Append(@, q)]]_vars

C7_Witness ==
    /\ last.op = "record_payment"
    /\ last.ret
    /\ Len(members) >= 2
    /\ Len(transactions) >= 2
    /\ \E x \in AllPayments(members) : x.p.transaction_id = transactions[Len(transactions)].id

\* C8 - when the removed Dues Collection income transaction has a payment
\* whose transaction_id is its id, that payment and no other is removed.
C8_ExactMatchFirst ==
    [][(IsCall("remove_transaction") /\ last'.ret)
       => \A t \in DeletedTransactions :
             \A x \in AllPayments(members) :
                (IsDuesIncome(t) /\ x.p.transaction_id = t.id)
                    => DeletedPayments = {x}]_vars

\* C9 - removing a transaction never removes a payment that is linked to a
\* different transaction that still exists.
C9_FallbackSparesLinked ==
    [][IsCall("remove_transaction")
       => \A x \in DeletedPayments :
             ~(x.p.transaction_id # None /\ x.p.transaction_id \in TransactionIds')]_vars

\* Position of a payment in the order the scan visits them.
PositionOf(ms, x) ==
    CHOOSE ij \in {<<i, j>> : i \in DOMAIN ms, j \in 1..Cardinality(AllPayments(ms))} :
        /\ ij[2] \in DOMAIN ms[ij[1]].payments_made
        /\ ms[ij[1]].id = x.mid
        /\ ms[ij[1]].payments_made[ij[2]] = x.p

Before(a, b) == a[1] < b[1] \/ (a[1] = b[1] /\ a[2] <= b[2])

\* Legacy payments the fallback may take for transaction t.
Qualifying(ms, t) ==
    {x \in AllPayments(ms) :
        /\ x.p.transaction_id = None
        /\ x.p.amount = t.amount
        /\ Abs(x.p.date - t.date) < FuzzyWindow}

\* C10 - when a Dues Collection income transaction without an exactly linked
\* payment is removed, the first legacy payment of the same amount dated
\* within 60 seconds is removed and no other; when there is none, no payment
\* is removed; the transaction is deleted either way.
C10_FuzzyFallback ==
    [][(IsCall("remove_transaction") /\ last'.ret)
       => \A t \in DeletedTransactions :
             (/\ IsDuesIncome(t)
              /\ \A x \in AllPayments(members) : x.p.transaction_id # t.id)
             => LET Q == Qualifying(members, t)
                IN  /\ Q = {} => DeletedPayments = {}
                    /\ Q # {} =>
                          DeletedPayments =
                             {CHOOSE x \in Q : \A y \in Q :
                                 Before(PositionOf(members, x), PositionOf(members, y))}
                    /\ AllPayments(members') \subseteq AllPayments(members)]_vars

\* Number of payments that refer to transaction tid.
RefCount(ms, tid) ==
    Cardinality({x \in AllPayments(ms) : x.p.transaction_id = tid})

\* C11 - the link is removed in both directions: a transaction that is
\* referenced by exactly one payment (as record_payment leaves it) and that
\* still exists after a call is still referenced by exactly one payment; in
\* particular remove_member leaves no transaction behind whose payment is gone.
C11_LinkedBothWays ==
    [][\A i \in DOMAIN transactions' :
          LET t == transactions'[i]
          IN  (t.id \in TransactionIds /\ RefCount(members, t.id) = 1)
                 => RefCount(members', t.id) = 1]_vars

(***************************************************************************)
(* SpecQuery: the read-only reports on a ledger                            *)
(***************************************************************************)
MaxInstallments == 3     \* installments of a custom schedule
MaxPayments == 2         \* payments the member has made

InstallmentAmounts == {50, 100}
QueryDues == {100, 300}
QueryPayments == {50, 150}

RECURSIVE SeqsOfLen(_, _)
SeqsOfLen(S, n) ==
    IF n = 0 THEN {<<>>}
    ELSE {Append(q, e) : q \in SeqsOfLen(S, n - 1), e \in S}

SeqsUpTo(S, n) == UNION {SeqsOfLen(S, k) : k \in 0..n}

Min(a, b) == IF a < b THEN a ELSE b
Max(a, b) == IF a > b THEN a ELSE b

\* One entry of the schedule the custom_payment_schedule form submits:
\* {'due_date': ..., 'amount': float(amount), 'description': description}
CustomInstallment(due_date, amount) ==
    [due_date |-> due_date, amount |-> amount, description |-> "custom"]

\* The schedule the form submits for the amounts a, the first entry due at
\* the start and each later one a clock step after the one before.
CustomSchedule(a) == [k \in DOMAIN a |-> CustomInstallment((k - 1) * ClockStep, a[k])]

\* status = 'paid' if total_paid >= running_total else 'pending'
InstallmentStatusStrict(total_paid, running_total) ==
    IF total_paid > running_total THEN "paid" ELSE "pending"

InstallmentStatus(total_paid, running_total) ==
    IF total_paid >= running_total THEN "paid" ELSE "pending"

\* The loop of get_member_payment_schedule from entry k on, running_total
\* being the sum of the entries before k.
RECURSIVE ScheduleWithStatus(_, _, _, _)
ScheduleWithStatus(schedule, total_paid, running_total, k) ==
    IF k > Len(schedule) THEN <<>>
    ELSE LET scheduled_payment == schedule[k]
             running == running_total + scheduled_payment.amount
             status == InstallmentStatus(total_paid, running)
             amount_due == IF status = "pending" THEN Max(0, running - total_paid) ELSE 0
         IN  <<[due_date |-> scheduled_payment.due_date,
                amount |-> scheduled_payment.amount,
                description |-> scheduled_payment.description,
                status |-> status,
                amount_due |-> Min(amount_due, scheduled_payment.amount)]>>
             \o ScheduleWithStatus(schedule, total_paid, running, k + 1)

\* get_member_payment_schedule for a member record
get_member_payment_schedule(m) ==
    ScheduleWithStatus(m.custom_schedule, TotalPaid(m), 0, 1)

\* "Add all recorded transactions"
TransactionItems(ts) ==
    [k \in DOMAIN ts |->
        [id |-> <<ts[k].id>>, date |-> ts[k].date, type |-> "transaction",
         category |-> ts[k].category, amount |-> ts[k].amount,
         transaction_type |-> ts[k].type, member |-> None, status |-> "completed"]]

\* running_total after entry k of the schedule
PrefixSum(schedule, k) == SumSeq([i \in 1..k |-> schedule[i].amount])

\* "Find the next unpaid scheduled payment": the first entry with
\* total_paid < running_total, 0 when the loop ends without a break.
FirstUnpaid(schedule, total_paid) ==
    LET unpaid == {k \in DOMAIN schedule : total_paid < PrefixSum(schedule, k)}
    IN  IF unpaid = {} THEN 0
        ELSE CHOOSE k \in unpaid : \A o \in unpaid : k <= o

\* The items one member adds to all_items ("Add outstanding dues for each
\* member"), the clock reading current_date.
DuesItems(m, all_items, current_date) ==
    LET total_paid == TotalPaid(m)
        balance == m.dues_amount - total_paid
        k == FirstUnpaid(m.custom_schedule, total_paid)
    IN  IF balance > 0
        THEN IF m.custom_schedule # <<>>
             THEN IF k = 0 THEN <<>>
                  ELSE <<[id |-> <<m.id, Len(all_items)>>,
                          date |-> m.custom_schedule[k].due_date,
                          type |-> "dues_outstanding",
                          category |-> "Outstanding Dues",
                          amount |-> Min(balance, m.custom_schedule[k].amount),
                          transaction_type |-> "outstanding",
                          member |-> m.id,
                          status |-> IF m.custom_schedule[k].due_date < current_date
                                     THEN "overdue" ELSE "pending"]>>
             ELSE <<[id |-> <<m.id>>, date |-> current_date,
                     type |-> "dues_outstanding", category |-> "Outstanding Dues",
                     amount |-> balance, transaction_type |-> "outstanding",
                     member |-> m.id, status |-> "pending"]>>
        ELSE <<>>

RECURSIVE OutstandingDues(_, _, _, _)
OutstandingDues(ms, i, all_items, current_date) ==
    IF i > Len(ms) THEN all_items
    ELSE OutstandingDues(ms, i + 1,
                         all_items \o DuesItems(ms[i], all_items, current_date),
                         current_date)

\* all_items.sort(key=lambda x: x['date'], reverse=True): newest first, items
\* of one date in the order they had.
RECURSIVE SortNewestFirst(_)
SortNewestFirst(items) ==
    IF items = <<>> THEN <<>>
    ELSE LET h == Head(items)
             rest == SortNewestFirst(Tail(items))
             n == Cardinality({k \in DOMAIN rest : rest[k].date > h.date})
         IN  SubSeq(rest, 1, n) \o <<h>> \o SubSeq(rest, n + 1, Len(rest))

get_all_financial_items(ms, ts, current_date) ==
    SortNewestFirst(OutstandingDues(ms, 1, TransactionItems(ts), current_date))

\* Ledgers the reports are asked about: one member on a custom schedule who
\* has made payments through record_payment, alone or followed by a member
\* without schedule and payments.
QueryMember(dues_amount, amounts, paid) ==
    [id |-> 1, dues_amount |-> dues_amount, payment_plan |-> "custom",
     custom_schedule |-> CustomSchedule(amounts),
     payments_made |-> [k \in DOMAIN paid |-> NewPayment(paid[k], 0, "cash", k, k)]]

PlainMember ==
    [id |-> 2, dues_amount |-> 100, payment_plan |-> "custom",
     custom_schedule |-> <<>>, payments_made |-> <<>>]

InitQuery ==
    \E d \in QueryDues, a \in SeqsUpTo(InstallmentAmounts, MaxInstallments),
       paid \in SeqsUpTo(QueryPayments, MaxPayments), others \in {<<>>, <<PlainMember>>} :
        /\ members = <<QueryMember(d, a, paid)>> \o others
        /\ transactions = [k \in DOMAIN paid |->
                              NewTransaction(k, 0, DuesCollection, paid[k], "income")]
        /\ nextId = Len(paid) + 1
        /\ nextMember = Len(others) + 2
        /\ edits = 0
        /\ now = 0
        /\ disk = [f \in Files |->
                     IF f = members_file THEN FilesOf(f, members)
                     ELSE IF f = transactions_file THEN FilesOf(f, transactions)
                     ELSE NoFiles]
        /\ last = NoLast
        /\ target = members_file
        /\ pending_brothers = <<>>
        /\ threads = NoThreads

\* One call of get_member_payment_schedule(member_id); ret is the list returned.
QuerySchedule(member_id) ==
    LET i == IndexOfMember(members, member_id)
    IN  /\ last' = [Call("get_member_payment_schedule", FALSE,
                         IF i = 0 THEN <<>> ELSE get_member_payment_schedule(members[i]))
                      EXCEPT !.mid = member_id]
        /\ UNCHANGED <<members, transactions, now, nextId, nextMember, edits, disk, target, pending_brothers, threads>>

\* One call of get_all_financial_items(); ret is the list returned.
QueryItems ==
    /\ last' = Call("get_all_financial_items", FALSE,
                    get_all_financial_items(members, transactions, now))
    /\ UNCHANGED <<members, transactions, now, nextId, nextMember, edits, disk, target, pending_brothers, threads>>

NextQuery ==
    \/ \E m \in MemberIds : QuerySchedule(m)
    \/ QueryItems
    \/ Tick

SpecQuery == InitQuery /\ [][NextQuery]_vars

(***************************************************************************)
(* Claims about the reports (checked under SpecQuery)                      *)
(***************************************************************************)
\* The member the last get_member_payment_schedule call was about.
Asked == members[IndexOfMember(members, last.mid)]

\* C12 - get_member_payment_schedule walks the installments in order with a
\* cumulative total: an installment is paid iff the sum of the member's
\* payments reaches its cumulative threshold, otherwise it is pending with
\* amount_due = min(amount, max(0, threshold - total paid)); installments
\* [100, 100, 100] with 150 paid give paid / pending 50 / pending 100.
C12_ScheduleStatus ==
    last.op = "get_member_payment_schedule" =>
        LET schedule == Asked.custom_schedule
            total == SumSeq([k \in DOMAIN Asked.payments_made |-> Asked.payments_made[k].amount])
            r == last.ret
        IN  /\ Len(r) = Len(schedule)
            /\ \A k \in DOMAIN r :
                  LET threshold == SumSeq([j \in 1..k |-> schedule[j].amount])
                  IN  /\ r[k].amount = schedule[k].amount
                      /\ r[k].status \in {"paid", "pending"}
                      /\ r[k].status = "paid" <=> total >= threshold
                      /\ r[k].status = "pending" =>
                            r[k].amount_due = Min(schedule[k].amount, Max(0, threshold - total))
            /\ ([k \in DOMAIN schedule |-> schedule[k].amount] = <<100, 100, 100>> /\ total = 150)
                  => /\ r[1].status = "paid"
                     /\ r[2].status = "pending" /\ r[2].amount_due = 50
                     /\ r[3].status = "pending" /\ r[3].amount_due = 100

C12_Witness ==
    /\ last.op = "get_member_payment_schedule"
    /\ [k \in DOMAIN Asked.custom_schedule |-> Asked.custom_schedule[k].amount] = <<100, 100, 100>>
    /\ TotalPaid(Asked) = 150
    /\ [k \in DOMAIN last.ret |-> last.ret[k].status] = <<"paid", "pending", "pending">>
    /\ last.ret[2].amount_due = 50

\* C13 - get_all_financial_items reports exactly one outstanding-dues item for
\* every member whose balance is positive and none for a member whose balance
\* is zero or negative; with a schedule the item is the first installment whose
\* cumulative threshold exceeds the total paid, without one it is the full
\* balance.
C13_OneDuesItem ==
    last.op = "get_all_financial_items" =>
        \A i \in DOMAIN members :
            LET m == members[i]
                total == TotalPaid(m)
                balance == m.dues_amount - total
                items == {k \in DOMAIN last.ret :
                             /\ last.ret[k].type = "dues_outstanding"
                             /\ last.ret[k].member = m.id}
            IN  /\ balance > 0 => Cardinality(items) = 1
                /\ balance <= 0 => items = {}
                /\ \A k \in items :
                      IF m.custom_schedule = <<>>
                      THEN last.ret[k].amount = balance
                      ELSE \E j \in DOMAIN m.custom_schedule :
                              /\ PrefixSum(m.custom_schedule, j) > total
                              /\ \A o \in 1..(j - 1) : PrefixSum(m.custom_schedule, o) <= total
                              /\ last.ret[k].date = m.custom_schedule[j].due_date

(***************************************************************************)
(* SpecPending: brother registrations and the pending-brothers document    *)
(***************************************************************************)
MaxPending == 10         \* registrations made in one behaviour

FullNames == {"Test Brother"}
Emails == {"testbrother@example.com", "TestBrother@Example.com"}

\* email.strip().lower()
Lower(email) ==
    IF email = "TestBrother@Example.com" THEN "testbrother@example.com" ELSE email

\* PendingBrother(id=pending_id, full_name=..., email=..., ...)
PendingBrother(pending_id, full_name, email) ==
    [id |-> pending_id, full_name |-> full_name, email |-> Lower(email),
     is_verified |-> FALSE]

InitPending ==
    /\ members = <<>>
    /\ transactions = <<>>
    /\ now = 0
    /\ nextId = 1
    /\ nextMember = 1
    /\ edits = 0
    /\ disk = [f \in Files |-> NoFiles]
    /\ last = NoLast
    /\ target = pending_brothers_file
    /\ pending_brothers = <<>>
    /\ threads = NoThreads

\* register_brother with valid name, phone and email.  The reload after the
\* save only prints what it finds.
register_brother(full_name, email, fail) ==
    /\ nextId <= MaxPending
    /\ LET pending_id == nextId
           pb == Append(pending_brothers, PendingBrother(pending_id, full_name, email))
           r == save_data(pending_brothers_file, disk[pending_brothers_file], pb, fail)
       IN  /\ pending_brothers' = pb
           /\ disk' = [disk EXCEPT ![pending_brothers_file] = r.fs]
           /\ nextId' = nextId + 1
           /\ last' = [Call("register_brother", r.raised, ~r.raised)
                         EXCEPT !.mid = pending_id, !.data = <<full_name, email>>]
    /\ UNCHANGED <<members, transactions, now, nextMember, edits, target, threads>>

\* verify_brothers, action 'reject', for the registration waiting longest.
reject_brother(fail) ==
    /\ pending_brothers # <<>>
    /\ LET pb == Tail(pending_brothers)
           r == save_data(pending_brothers_file, disk[pending_brothers_file], pb, fail)
       IN  /\ pending_brothers' = pb
           /\ disk' = [disk EXCEPT ![pending_brothers_file] = r.fs]
           /\ last' = Call("reject_brother", r.raised, ~r.raised)
    /\ UNCHANGED <<members, transactions, now, nextId, nextMember, edits, target, threads>>

NextPending ==
    \/ \E n \in FullNames, e \in Emails : register_brother(n, e, "none")
    \/ reject_brother("none")

SpecPending == InitPending /\ [][NextPending]_vars

\* C14 - after register_brother returns a pending id, load_data on the
\* pending-brothers file returns a document that contains that id with the
\* registered name and email, whatever was saved to the file before.
C14_RegistrationPersisted ==
    (last.op = "register_brother" /\ last.ret) =>
        LET loaded == load_data(pending_brothers_file, disk[pending_brothers_file])
        IN  /\ loaded.st = "ok"
            /\ \E k \in DOMAIN loaded.data :
                  /\ loaded.data[k].id = last.mid
                  /\ loaded.data[k].full_name = last.data[1]
                  /\ loaded.data[k].email = Lower(last.data[2])

(***************************************************************************)
(* Further claims about the document store (checked under SpecStore)       *)
(***************************************************************************)
\* C15 - save_data of an empty document, the medium accepting the write,
\* completes without raising and without restoring a backup.
C15_EmptySaveCompletes ==
    (Saved /\ last.data = <<>> /\ last.fail = "none") =>
        /\ ~last.raised
        /\ disk[target].exp = FileOf(<<>>)

\* C16 - a failed save never corrupts prior state, for critical and
\* non-critical documents alike: when save_data raises, load_data still
\* returns the document that was persisted before the call.
C16_FailedSaveKeepsPrior ==
    (Saved /\ last.raised /\ last.before.st = "ok") => LoadNow = last.before

(***************************************************************************)
(* SpecFaulty: the ledger on a medium whose writes can fail                *)
(***************************************************************************)
\* data_files of optimize_data_storage, in its order
DataFiles ==
    <<members_file, transactions_file, budget_file, pending_brothers_file, users_file>>

\* The loop of optimize_data_storage from file k on: each document that is on
\* disk and loads non-empty is saved again; an exception of the load or of
\* the save is caught inside the loop (caught: a save raised).
RECURSIVE OptimizeFiles(_, _, _)
OptimizeFiles(d, k, fail) ==
    IF k > Len(DataFiles) THEN [disk |-> d, caught |-> FALSE]
    ELSE LET file_path == DataFiles[k]
             fs == d[file_path]
             data == load_data(file_path, fs)
             r == save_data(file_path, fs, data.data, fail)
         IN  IF (Exists(fs.exp) \/ Exists(fs.gz)) /\ data.st = "ok"
             THEN [OptimizeFiles([d EXCEPT ![file_path] = r.fs], k + 1, fail)
                     EXCEPT !.caught = @ \/ r.raised]
             ELSE OptimizeFiles(d, k + 1, fail)

\* file_age > 7 * 24 * 60 * 60
SevenDays == 604800

\* Backup files older than seven days are removed.  Every backup on disk was
\* made after the clock started, so none is older than the clock reading.
_cleanup_old_backups(d, oldest) ==
    IF oldest > SevenDays
    THEN [f \in DOMAIN d |-> [d[f] EXCEPT !.bak = Absent, !.gzbak = Absent]]
    ELSE d

\* optimize_data_storage, the writes of its saves ending as fail says.
optimize_data_storage(fail) ==
    LET o == OptimizeFiles(disk, 1, fail)
        saves == \E k \in DOMAIN DataFiles :
                    /\ Exists(disk[DataFiles[k]].exp) \/ Exists(disk[DataFiles[k]].gz)
                    /\ load_data(DataFiles[k], disk[DataFiles[k]]).st = "ok"
    IN  /\ saves \/ fail = "none"
        /\ disk' = _cleanup_old_backups(o.disk, now)
        /\ last' = [Call("optimize_data_storage", FALSE, TRUE)
                      EXCEPT !.save_raised = o.caught]
        /\ UNCHANGED <<members, transactions, now, nextId, nextMember, edits, target,
                       pending_brothers, threads>>

\* Every write can fail; a behaviour ends with the first call in which a save
\* raises.
NextFaulty ==
    /\ ~last.save_raised
    /\ \/ Calls(FailModes)
       \/ \E f \in FailModes : optimize_data_storage(f)

SpecFaulty == Init /\ [][NextFaulty]_vars

\* C17 - a persistence failure is never swallowed: whenever a save_data call
\* made inside a public operation raises, the operation raises too and does
\* not report success.
C17_FailureSurfaced ==
    last.save_raised => (last.raised /\ ~last.ret)

(***************************************************************************)
(* Further claims about the ledger (checked under Spec)                    *)
(***************************************************************************)
\* Every payment with a transaction_id in the persisted members document
\* refers to a transaction in the persisted transactions document.
Resolvable(d) ==
    LET ms == load_data(members_file, d[members_file])
        ts == load_data(transactions_file, d[transactions_file])
    IN  /\ ms.st # "error"
        /\ \A x \in AllPayments(ms.data) :
              x.p.transaction_id # None =>
                 /\ ts.st = "ok"
                 /\ \E k \in DOMAIN ts.data : ts.data[k].id = x.p.transaction_id

\* The files between the two saves of record_payment (transactions saved,
\* members not yet) and of remove_transaction (members saved, transactions
\* not yet).
AfterFirstSave ==
    IF last'.op = "record_payment"
    THEN [disk EXCEPT ![transactions_file] = disk'[transactions_file]]
    ELSE [disk EXCEPT ![members_file] = disk'[members_file]]

\* C18 - the two-step protocols keep the link resolvable on disk: starting
\* from files in which every link resolves, it resolves between the two saves
\* of record_payment and of remove_transaction and after the second save.
C18_LinkResolvableOnDisk ==
    [][((IsCall("record_payment") \/ IsCall("remove_transaction")) /\ Resolvable(disk))
       => (Resolvable(AfterFirstSave) /\ Resolvable(disk'))]_vars

(***************************************************************************)
(* SpecConcurrent: add_transaction served by several request threads       *)
(***************************************************************************)
\* The statements of add_transaction and of the save_data call inside it run
\* one by one; nothing in the code keeps another thread from running between
\* two of them.

\* self.transactions.append(transaction)
AppendTransaction(t, category, amount, transaction_type) ==
    /\ threads[t].pc = "idle"
    /\ threads[t].result = "none"
    /\ transactions' = Append(transactions,
                              NewTransaction(nextId, now, category, amount, transaction_type))
    /\ nextId' = nextId + 1
    /\ threads' = [threads EXCEPT ![t].pc = "appended"]
    /\ UNCHANGED <<members, now, nextMember, edits, disk, last, target, pending_brothers>>

\* serialized_data = [asdict(transaction) for transaction in data]
Serialize(t) ==
    /\ threads[t].pc = "appended"
    /\ threads' = [threads EXCEPT ![t].pc = "serialized",
                                  ![t].serialized_data = asdict(transactions_file, transactions)]
    /\ UNCHANGED <<members, transactions, now, nextId, nextMember, edits, disk, last,
                   target, pending_brothers>>

\* open(file_path, 'w') or gzip.open(compressed_path, 'wt'): the file is
\* truncated and holds part of the encoding until the write completes.
OpenFile(t) ==
    /\ threads[t].pc = "serialized"
    /\ LET ser == threads[t].serialized_data
           fs == disk[transactions_file]
       IN  disk' = [disk EXCEPT ![transactions_file] =
                      IF JsonSize(transactions_file, ser) > CompressThreshold
                      THEN WriteCompressed(fs, ser, "partial")
                      ELSE WriteExpanded(fs, ser, "partial")]
    /\ threads' = [threads EXCEPT ![t].pc = "writing"]
    /\ UNCHANGED <<members, transactions, now, nextId, nextMember, edits, last, target,
                   pending_brothers>>

\* json.dump completes and the file is closed.  When another thread has the
\* file open at the same time the bytes of the two are mixed: the file holds
\* this thread's encoding or something json.load rejects.
CloseFile(t, mixed) ==
    /\ threads[t].pc = "writing"
    /\ mixed => \E o \in Threads \ {t} : threads[o].pc = "writing"
    /\ LET ser == threads[t].serialized_data
           fs == disk[transactions_file]
           fail == IF mixed THEN "partial" ELSE "none"
       IN  disk' = [disk EXCEPT ![transactions_file] =
                      IF JsonSize(transactions_file, ser) > CompressThreshold
                      THEN WriteCompressed(fs, ser, fail)
                      ELSE WriteExpanded(fs, ser, fail)]
    /\ threads' = [threads EXCEPT ![t].pc = "written"]
    /\ UNCHANGED <<members, transactions, now, nextId, nextMember, edits, last, target,
                   pending_brothers>>

\* "Verify the save worked", then add_transaction returns the id or the
\* exception of save_data leaves it.
VerifyAndReturn(t) ==
    /\ threads[t].pc = "written"
    /\ LET raised == VerifyFails(transactions_file, disk[transactions_file],
                                 threads[t].serialized_data)
       IN  /\ threads' = [threads EXCEPT ![t].pc = "idle",
                                         ![t].result = IF raised THEN "raised" ELSE "ok"]
           /\ last' = Call("add_transaction", raised, ~raised)
    /\ UNCHANGED <<members, transactions, now, nextId, nextMember, edits, disk, target,
                   pending_brothers>>

NextConcurrent ==
    \E t \in Threads :
        \/ \E k \in TransactionKinds, a \in Amounts :
              AppendTransaction(t, k.category, a, k.type)
        \/ Serialize(t)
        \/ OpenFile(t)
        \/ \E mixed \in BOOLEAN : CloseFile(t, mixed)
        \/ VerifyAndReturn(t)

SpecConcurrent == Init /\ [][NextConcurrent]_vars

\* C19 - writes to one document are serialized: after the add_transaction
\* calls of all threads have returned without error, the persisted
\* transactions document contains every one of their transactions and equals
\* the list in memory.
C19_WritesSerialized ==
    (\A t \in Threads : threads[t].pc = "idle" /\ threads[t].result = "ok") =>
        load_data(transactions_file, disk[transactions_file])
            = [st |-> "ok", data |-> transactions]

(***************************************************************************)
(* SpecCustom: members on the custom payment plan                          *)
(***************************************************************************)
CustomPlans == {"semester", "custom"}

\* custom_schedule arguments: none, or a list of installments
CustomScheduleArgs ==
    {NoSchedule} \cup
    {[given |-> TRUE, value |-> CustomSchedule(a)] :
        a \in SeqsUpTo(InstallmentAmounts, MaxInstallments) \ {<<>>}}

\* The ledger is empty, or holds one member whose custom schedule was set
\* through the custom_payment_schedule form.
InitCustom ==
    \E ms \in {<<>>} \cup {<<QueryMember(100, a, <<>>)>> :
                              a \in SeqsUpTo(InstallmentAmounts, MaxInstallments) \ {<<>>}} :
        /\ members = ms
        /\ transactions = <<>>
        /\ nextId = 1
        /\ nextMember = Len(ms) + 1
        /\ edits = 0
        /\ now = 0
        /\ disk = [f \in Files |->
                     IF f = members_file THEN FilesOf(f, ms) ELSE NoFiles]
        /\ last = NoLast
        /\ target = members_file
        /\ pending_brothers = <<>>
        /\ threads = NoThreads

NextCustom ==
    \/ \E d \in DuesAmounts, p \in CustomPlans, s \in CustomScheduleArgs :
          add_member(d, p, s, "none")
    \/ \E m \in MemberIds, d \in EditedDuesAmounts, p \in CustomPlans,
          s \in CustomScheduleArgs : update_member(m, d, p, s, "none")

SpecCustom == InitCustom /\ [][NextCustom]_vars

\* C20 - for a member on the custom plan the schedule generator never alters
\* the installments: add_member with plan custom and a schedule S stores
\* exactly S, and update_member without a schedule leaves the installments of
\* a custom member unchanged.
C20_CustomScheduleKept ==
    [][/\ (IsCall("add_member") /\ last'.ret /\ last'.data.given
            /\ members'[Len(members')].payment_plan = "custom")
          => members'[Len(members')].custom_schedule = last'.data.value
       /\ (IsCall("update_member") /\ last'.ret /\ ~last'.data.given)
          => \A i \in DOMAIN members :
                (/\ members[i].id = last'.mid
                 /\ members[i].payment_plan = "custom"
                 /\ members'[i].payment_plan = "custom")
                => members'[i].custom_schedule = members[i].custom_schedule]_vars

(***************************************************************************)
(* SpecPlans: add_member and update_member over every payment plan         *)
(***************************************************************************)
\* Dues amounts of the model are multiples of 4, for which the integer
\* division of generate_payment_schedule above and the division of the code
\* (dues_amount / 4, dues_amount / 2) give the same installment.
AllPlans == {"monthly", "bimonthly", "semester", "custom"}

\* custom_schedule arguments: none, or one installment of 50
PlanScheduleArgs ==
    {NoSchedule, [given |-> TRUE, value |-> CustomSchedule(<<50>>)]}

InitPlans == Init /\ members = <<>>

NextPlans ==
    \/ \E d \in DuesAmounts, p \in AllPlans, s \in PlanScheduleArgs :
          add_member(d, p, s, "none")
    \/ \E m \in MemberIds, d \in EditedDuesAmounts, p \in AllPlans,
          s \in PlanScheduleArgs : update_member(m, d, p, s, "none")

SpecPlans == InitPlans /\ [][NextPlans]_vars

\* C21 - schedule sum: every member whose plan is monthly, bimonthly or
\* semester has installments whose amounts sum to the member's dues_amount.
C21_ScheduleSum ==
    \A i \in DOMAIN members :
        members[i].payment_plan \in {"monthly", "bimonthly", "semester"} =>
            SumSeq([k \in DOMAIN members[i].custom_schedule |->
                       members[i].custom_schedule[k].amount]) = members[i].dues_amount

(***************************************************************************)
(* SpecSchedule: generate_payment_schedule with its calendar due dates      *)
(***************************************************************************)
MinYear == 2023
MaxYear == 2024

Years == MinYear..MaxYear

IsLeap(y) == (y % 4 = 0 /\ y % 100 # 0) \/ y % 400 = 0

DaysInMonth(y, mo) ==
    IF mo = 2 THEN (IF IsLeap(y) THEN 29 ELSE 28)
    ELSE IF mo \in {4, 6, 9, 11} THEN 30 ELSE 31

\* Days of the month the start date is drawn from: the first, one in the
\* middle, and every day that can be the last of a month.
StartDays == {1, 15, 28, 29, 30, 31}

\* the readings datetime.now() can give, to the day
Dates ==
    {d \in [year : Years, month : 1..12, day : StartDays] :
        d.day <= DaysInMonth(d.year, d.month)}

\* date.replace(day=n)
ReplaceDay(d, n) == [d EXCEPT !.day = n]

FirstOfNextMonth(d) ==
    IF d.month = 12 THEN [year |-> d.year + 1, month |-> 1, day |-> 1]
    ELSE [year |-> d.year, month |-> d.month + 1, day |-> 1]

\* date + timedelta(days=n), n >= 0
RECURSIVE AddDays(_, _)
AddDays(d, n) ==
    IF d.day + n <= DaysInMonth(d.year, d.month)
    THEN [d EXCEPT !.day = d.day + n]
    ELSE AddDays(FirstOfNextMonth(d), n - (DaysInMonth(d.year, d.month) - d.day + 1))

\* The i-th monthly due date computed from the start date as it is.
MonthlyDueDateUnaligned(current_date, i) ==
    ReplaceDay(AddDays(current_date, 32 * i), 1)

\* current_date.replace(day=1) + timedelta(days=32*i), then .replace(day=1)
MonthlyDueDate(current_date, i) ==
    ReplaceDay(AddDays(ReplaceDay(current_date, 1), 32 * i), 1)

\* current_date.replace(day=1) + timedelta(days=60*i), then .replace(day=1)
BimonthlyDueDate(current_date, i) ==
    ReplaceDay(AddDays(ReplaceDay(current_date, 1), 60 * i), 1)

\* One installment with its due date; description is the label, the
\* installment's number and the number of installments.
DatedInstallment(due_date, amount, description) ==
    [due_date |-> due_date, amount |-> amount, description |-> description]

\* The custom_schedule generate_payment_schedule builds when datetime.now()
\* reads current_date (range(4) and range(2) are i - 1 for i in 1..4, 1..2).
DatedSchedule(m, current_date) ==
    IF m.payment_plan = "monthly"
    THEN [i \in 1..4 |-> DatedInstallment(MonthlyDueDate(current_date, i - 1),
                             m.dues_amount \div 4, <<"Monthly payment", i, 4>>)]
    ELSE IF m.payment_plan = "bimonthly"
    THEN [i \in 1..2 |-> DatedInstallment(BimonthlyDueDate(current_date, i - 1),
                             m.dues_amount \div 2, <<"Bi-monthly payment", i, 2>>)]
    ELSE IF m.payment_plan = "semester"
    THEN <<DatedInstallment(current_date, m.dues_amount, <<"Full semester payment", 1, 1>>)>>
    ELSE <<>>

GeneratedPlans == {"monthly", "bimonthly", "semester"}
ScheduleDues == {0, 100}

\* One member whose schedule has not been generated yet.
InitSchedule ==
    /\ \E d \in ScheduleDues, p \in GeneratedPlans :
          members = <<[id |-> 1, dues_amount |-> d, payment_plan |-> p,
                       custom_schedule |-> <<>>, payments_made |-> <<>>]>>
    /\ transactions = <<>>
    /\ now = 0
    /\ nextId = 1
    /\ nextMember = 2
    /\ edits = 0
    /\ disk = NoFiles
    /\ last = NoLast
    /\ target = members_file
    /\ pending_brothers = <<>>
    /\ threads = NoThreads

\* generate_payment_schedule(member_id) run on the day current_date
GenerateSchedule(member_id, current_date) ==
    LET i == IndexOfMember(members, member_id) IN
    /\ i # 0
    /\ members' = [members EXCEPT
                     ![i].custom_schedule = DatedSchedule(members[i], current_date)]
    /\ last' = [NoLast EXCEPT !.op = "generate_payment_schedule",
                              !.mid = member_id, !.data = current_date]
    /\ UNCHANGED <<transactions, now, nextId, nextMember, edits, disk, target,
                   pending_brothers, threads>>

NextSchedule == \E d \in Dates : GenerateSchedule(1, d)

SpecSchedule == InitSchedule /\ [][NextSchedule]_vars

\* The 1st of the month k calendar months after the month of d.
MonthsLater(d, k) ==
    LET idx == d.year * 12 + (d.month - 1) + k IN
    [year |-> idx \div 12, month |-> (idx % 12) + 1, day |-> 1]

Generated(plan) ==
    /\ last.op = "generate_payment_schedule"
    /\ members[1].payment_plan = plan

\* C22 - monthly schedule: for every start date and dues amount the monthly
\* generator leaves exactly 4 installments of dues_amount / 4, due on the 1st
\* of four consecutive calendar months beginning with the start date's month.
C22_MonthlySchedule ==
    Generated("monthly") =>
        /\ Len(members[1].custom_schedule) = 4
        /\ \A k \in 1..4 :
              /\ members[1].custom_schedule[k].amount * 4 = members[1].dues_amount
              /\ members[1].custom_schedule[k].due_date = MonthsLater(last.data, k - 1)

\* A zero-dues monthly schedule generated on 31 December: the installments
\* cross the year boundary.
C22_Witness ==
    /\ Generated("monthly")
    /\ members[1].dues_amount = 0
    /\ last.data = [year |-> MinYear, month |-> 12, day |-> 31]
    /\ members[1].custom_schedule[4].due_date = [year |-> MinYear + 1, month |-> 3, day |-> 1]

\* C23 - bimonthly schedule: for every start date the bimonthly generator
\* leaves exactly 2 installments of dues_amount / 2, the first due on the 1st
\* of the start date's month and the second on the 1st of the month two
\* calendar months later.
C23_BimonthlySchedule ==
    Generated("bimonthly") =>
        /\ Len(members[1].custom_schedule) = 2
        /\ \A k \in 1..2 :
              /\ members[1].custom_schedule[k].amount * 2 = members[1].dues_amount
              /\ members[1].custom_schedule[k].due_date = MonthsLater(last.data, 2 * (k - 1))

(***************************************************************************)
(* SpecSigned: payments and transactions of either sign                     *)
(***************************************************************************)
\* amounts a caller can pass: the route handlers take float(request.form[...])
SignedAmounts == {-25, 25}

NextSigned ==
    \/ \E d \in DuesAmounts : add_member(d, "semester", NoSchedule, "none")
    \/ \E m \in MemberIds, a \in SignedAmounts :
          record_payment(m, a, "cash", NoDate, "none", "none")
    \/ \E k \in TransactionKinds, a \in SignedAmounts :
          add_transaction(k.category, a, k.type, "none")
    \/ Tick

SpecSigned == InitPlans /\ [][NextSigned]_vars

\* get_member_balance(member_id) on the members list ms
BalanceOf(ms, member_id) == get_member_balance(ms[IndexOfMember(ms, member_id)])

\* C24 - balance monotonicity: after every record_payment call that returns
\* True, the member's balance is not greater than it was before the call.
C24_BalanceNeverIncreases ==
    [][(IsCall("record_payment") /\ last'.ret = TRUE) =>
          BalanceOf(members', last'.mid) <= BalanceOf(members, last'.mid)]_vars

\* C25 - negative amounts rejected: a record_payment or add_transaction call
\* given a negative amount changes neither the members, nor the transactions,
\* nor any persisted document.
C25_NegativeRejected ==
    [][((IsCall("record_payment") \/ IsCall("add_transaction")) /\ last'.amount < 0) =>
          (members' = members /\ transactions' = transactions /\ disk' = disk)]_vars

(***************************************************************************)
(* Compression threshold (checked under SpecStore)                         *)
(***************************************************************************)
\* The file load_data opens for a logical name: the .gz file when it exists,
\* else the expanded file.
FileRead(fs) == IF Exists(fs.gz) THEN fs.gz ELSE fs.exp

\* C26 - compression threshold: a save_data call that returned stored the
\* document compressed exactly when its encoding is longer than 3000 bytes
\* (2900 and exactly 3000 expanded, 3100 compressed), and load_data then reads
\* the form just written.
C26_ThresholdAndLoad ==
    SavedOk =>
        LET ser == asdict(target, last.data)
            written == IF JsonSize(target, ser) > CompressThreshold
                       THEN disk[target].gz ELSE disk[target].exp
        IN  /\ written = FileOf(ser)
            /\ FileRead(disk[target]) = written

(***************************************************************************)
(* SpecUnknown: calls with ids the ledger does not hold                     *)
(***************************************************************************)
\* Id arguments: UnknownId is never assigned; the other ids are unknown
\* before they are assigned and after their record is removed.
MemberArgs == UnknownId..MaxMemberId
TransactionArgs == UnknownId..MaxId

\* Return value of get_member_balance: None, or the balance
NoBalance == [none |-> TRUE, value |-> 0]
SomeBalance(b) == [none |-> FALSE, value |-> b]

\* One call of get_member_balance(member_id); ret is the value returned.
QueryBalance(member_id) ==
    LET i == IndexOfMember(members, member_id)
    IN  /\ last' = [Call("get_member_balance", FALSE,
                         IF i = 0 THEN NoBalance
                         ELSE SomeBalance(get_member_balance(members[i])))
                      EXCEPT !.mid = member_id]
        /\ UNCHANGED <<members, transactions, now, nextId, nextMember, edits, disk, target, pending_brothers, threads>>

NextUnknown ==
    \/ \E d \in DuesAmounts : add_member(d, "custom", NoSchedule, "none")
    \/ \E m \in MemberArgs, d \in DuesAmounts, s \in PlanScheduleArgs :
          update_member(m, d, "custom", s, "none")
    \/ \E m \in MemberArgs : remove_member(m, "none")
    \/ \E m \in MemberArgs, a \in PaymentAmounts :
          record_payment(m, a, "cash", NoDate, "none", "none")
    \/ \E x \in TransactionArgs, a \in Amounts :
          update_transaction(x, DuesCollection, a, "income", "none")
    \/ \E x \in TransactionArgs : remove_transaction(x, "none", "none")
    \/ \E m \in MemberArgs : QuerySchedule(m)
    \/ \E m \in MemberArgs : QueryBalance(m)

SpecUnknown == InitPlans /\ [][NextUnknown]_vars

MemberCalls ==
    {"record_payment", "update_member", "remove_member",
     "get_member_balance", "get_member_payment_schedule"}
TransactionCalls == {"update_transaction", "remove_transaction"}

\* The step is a call whose id argument names no record of the ledger.
UnknownMemberCall ==
    /\ last'.op \in MemberCalls
    /\ \A i \in DOMAIN members : members[i].id # last'.mid
UnknownTransactionCall ==
    /\ last'.op \in TransactionCalls
    /\ \A i \in DOMAIN transactions : transactions[i].id # last'.tid

\* What a call with an unknown id returns.
NotFound(op) ==
    IF op = "get_member_balance" THEN NoBalance
    ELSE IF op = "get_member_payment_schedule" THEN <<>>
    ELSE FALSE

\* C27 - unknown ids: record_payment, update_member, remove_member,
\* update_transaction and remove_transaction called with an id the ledger does
\* not hold return False (get_member_balance returns None and
\* get_member_payment_schedule the empty list) without raising, and leave the
\* members, the transactions and the persisted documents unchanged.
C27_UnknownIdNoEffect ==
    [][(UnknownMemberCall \/ UnknownTransactionCall) =>
          /\ last'.ret = NotFound(last'.op)
          /\ ~last'.raised
          /\ members' = members
          /\ transactions' = transactions
          /\ disk' = disk]_vars

\* record_payment has been called for a member id that a non-empty ledger
\* does not hold.
C27_Witness ==
    /\ last.op = "record_payment"
    /\ last.ret = FALSE
    /\ members # <<>>
    /\ transactions # <<>>
    /\ \A i \in DOMAIN members : members[i].id # last.mid

(***************************************************************************)
(* SpecReminder: the daily reminder job beside add_member / remove_member   *)
(***************************************************************************)
\* The scheduler thread. check_and_send_reminders() iterates
\* self.members.items() itself (member_ids is None): the iterator remembers
\* the size of the dict (used) and raises RuntimeError when the size differs
\* at the next step. keys is the key list when the pass began, pos the
\* position of the iterator, member_id the key it yielded last, considered
\* the members whose balance was read, present the members held by the dict
\* at every step of the pass so far.
IdleReminder ==
    [pc |-> "idle", pos |-> 0, used |-> 0, keys |-> <<>>, member_id |-> None,
     considered |-> {}, present |-> {}, reminders_sent |-> 0]

KeysOf(ms) == [i \in DOMAIN ms |-> ms[i].id]

\* An empty ledger and the scheduler thread waiting for its trigger.
InitReminder ==
    /\ members = <<>>
    /\ transactions = <<>>
    /\ now = 0
    /\ nextId = 1
    /\ nextMember = 1
    /\ edits = 0
    /\ disk = [f \in Files |-> NoFiles]
    /\ last = NoLast
    /\ target = members_file
    /\ pending_brothers = <<>>
    /\ threads = <<IdleReminder>>

\* The cron trigger fires: the pass begins.
StartReminders ==
    /\ threads[1].pc = "idle"
    /\ last.op # "check_and_send_reminders"
    /\ threads' = <<[IdleReminder EXCEPT !.pc = "next", !.pos = 1,
                                         !.used = Len(members),
                                         !.keys = KeysOf(members),
                                         !.present = MemberIds]>>
    /\ UNCHANGED <<members, transactions, now, nextId, nextMember, edits, disk, last, target, pending_brothers>>

\* The pass ends: by return reminders_sent, or by an exception.
EndReminders(t, raised) ==
    /\ threads' = <<IdleReminder>>
    /\ last' = [Call("check_and_send_reminders", raised, t.reminders_sent)
                  EXCEPT !.data = [present |-> t.present \cap MemberIds,
                                   considered |-> t.considered]]

\* for member_id, member in members_to_check.items(): one step of the
\* iterator. A dict of another size raises RuntimeError. A dict of the same
\* size with other keys (a removal and an insertion since the last step)
\* either raises or goes on, as the layout of the dict decides.
ReminderNext ==
    LET t == threads[1]
        here == [t EXCEPT !.present = @ \cap MemberIds]
    IN  /\ t.pc = "next"
        /\ IF Len(members) # t.used
           THEN EndReminders(here, TRUE)
           ELSE \/ /\ KeysOf(members) # t.keys
                   /\ EndReminders(here, TRUE)
                \/ IF t.pos > Len(members)
                   THEN EndReminders(here, FALSE)
                   ELSE /\ threads' = <<[here EXCEPT !.pc = "balance",
                                                     !.member_id = members[t.pos].id]>>
                        /\ last' = last
        /\ UNCHANGED <<members, transactions, now, nextId, nextMember, edits, disk, target, pending_brothers>>

\* balance = self.get_member_balance(member_id); f"{balance:.2f}" raises
\* TypeError when the balance is None; a reminder is sent when balance > 0.
ReminderBalance ==
    LET t == threads[1]
        here == [t EXCEPT !.present = @ \cap MemberIds]
        i == IndexOfMember(members, t.member_id)
    IN  /\ t.pc = "balance"
        /\ IF i = 0
           THEN EndReminders(here, TRUE)
           ELSE /\ threads' = <<[here EXCEPT
                                   !.pc = "next", !.pos = @ + 1,
                                   !.considered = @ \cup {t.member_id},
                                   !.reminders_sent =
                                       IF get_member_balance(members[i]) > 0
                                       THEN @ + 1 ELSE @]>>
                /\ last' = last
        /\ UNCHANGED <<members, transactions, now, nextId, nextMember, edits, disk, target, pending_brothers>>

NextReminder ==
    \/ \E d \in DuesAmounts : add_member(d, "semester", NoSchedule, "none")
    \/ \E m \in MemberIds : remove_member(m, "none")
    \/ StartReminders
    \/ ReminderNext
    \/ ReminderBalance

SpecReminder == InitReminder /\ [][NextReminder]_vars

\* C28 - reminder pass beside membership changes: a pass of the reminder job
\* that runs while add_member and remove_member are called ends without an
\* error and has considered every member that was present throughout the
\* pass; no step of the pass changes the members or the transactions.
C28_ReminderPassClean ==
    /\ [](last.op = "check_and_send_reminders" =>
            /\ ~last.raised
            /\ last.data.present \subseteq last.data.considered)
    /\ [][threads' # threads =>
            (members' = members /\ transactions' = transactions)]_vars

(***************************************************************************)
(* Dues totals (checked under SpecUnknown, which starts from the empty      *)
(* ledger and makes every ledger call but add_transaction)                  *)
(***************************************************************************)
\* Sum of the amounts of the Dues Collection income transactions
DuesIncomeTotal(ts) ==
    SumSeq([i \in DOMAIN ts |-> IF IsDuesIncome(ts[i]) THEN ts[i].amount ELSE 0])

\* get_dues_collection_summary: total_collected, the sum of all members'
\* payment amounts
total_collected(ms) == SumSeq([i \in DOMAIN ms |-> TotalPaid(ms[i])])

\* C29 - dues totals agree: in every state reached from the empty ledger by
\* record_payment, update_transaction, remove_transaction, update_member and
\* remove_member, the Dues Collection income transactions sum to the same
\* total as the payments of all members.
C29_DuesTotalsAgree == DuesIncomeTotal(transactions) = total_collected(members)

(***************************************************************************)
(* The two reports compared (checked under SpecQuery)                      *)
(***************************************************************************)
\* The first installment get_member_payment_schedule reports as pending for
\* the member m, 0 when it reports none.
FirstPending(m) ==
    LET r == get_member_payment_schedule(m)
        pending == {j \in DOMAIN r : r[j].status = "pending"}
    IN  IF pending = {} THEN 0
        ELSE CHOOSE j \in pending : \A o \in pending : j <= o

\* C30 - the reports agree: for every member with a positive balance and a
\* schedule, the amount get_all_financial_items reports for the member's
\* next-due installment equals the amount_due get_member_payment_schedule
\* reports for the member's first pending installment.
C30_ReportsAgree ==
    last.op = "get_all_financial_items" =>
        \A i \in DOMAIN members :
            LET m == members[i]
                j == FirstPending(m)
            IN  (get_member_balance(m) > 0 /\ m.custom_schedule # <<>> /\ j # 0) =>
                    \A k \in DOMAIN last.ret :
                        (last.ret[k].type = "dues_outstanding" /\ last.ret[k].member = m.id) =>
                            last.ret[k].amount = get_member_payment_schedule(m)[j].amount_due

====
